---- MODULE Spec2Model ----
(***************************************************************************)
(* A model of ngg::mpsc_queue (src/include/mpsc_queue.hpp): an intrusive,  *)
(* unbounded multi-producer / single-consumer queue built on two atomic    *)
(* node pointers.  Every action is one step of one thread between two      *)
(* accesses to shared memory.  The accesses the code orders (the acq_rel   *)
(* exchange on m_head, the release store / acquire load pair on            *)
(* node::next) are the only ones two threads race on, and m_tail is        *)
(* touched by the consumer alone, so an interleaving of these steps gives  *)
(* every behaviour the memory orders of the code allow.                    *)
(*                                                                         *)
(* Nodes are named by the order of their allocation: the n-th successful   *)
(* allocate() returns node n.  Node 1 is the constructor's dummy.  The     *)
(* allocator may hand a new node the storage of a deallocated one; a       *)
(* pointer that still names the deallocated node then refers to the new    *)
(* node (reusedBy).                                                        *)
(***************************************************************************)
EXTENDS Integers, Sequences, FiniteSets, TLC

\* ---------------------------------------------------------------- bounds
MaxPush == 3           \* pushes whose allocation succeeds, over all producers

\* ------------------------------------------------------------- constants
NumProducers == 2      \* producer threads: timer.cpp starts t1 and t2
NULL == 0              \* nullptr
DefaultData == 0       \* T() of the dummy node, T = int as in timer.cpp

Producers == 1..NumProducers
Nodes == 1..(MaxPush + 1)

VARIABLES
    m_head,      \* atomic_node m_head: newest node
    m_tail,      \* atomic_node m_tail: oldest node (the sentinel)
    next,        \* node::next of every node
    data,        \* node::data of every node
    nextId,      \* the node the next successful allocate() returns
    destroyed,   \* nodes node_allocator_traits::destroy was called on
    freed,       \* nodes node_allocator_traits::deallocate was called on
    deallocs,    \* number of deallocate() calls
    reusedBy,    \* per deallocated node: the node allocated in its storage
    pc,          \* per producer: position in push / push_impl
    val,         \* per producer: the argument of the push in progress
    new_node,    \* per producer: push_impl's local new_node
    prev_head,   \* per producer: push_impl's local prev_head
    pushSteps,   \* per producer: steps taken by the push in progress
    pushResult,  \* per producer: how the last push ended
    cpc,         \* consumer: position in pull / clear / ~mpsc_queue
    tail_ptr,    \* consumer: local tail_ptr of pull and clear
    nxt,         \* consumer: local next of pull and clear
    result,      \* consumer: pull's local result
    inDtor,      \* consumer: clear() was called by ~mpsc_queue
    opSteps,     \* consumer: steps of the pull in progress or just returned
    lastPull,    \* the std::optional the last pull returned: <<>> or <<v>>
    lastOp,      \* the consumer operation that returned last
    pushed,      \* per producer: values whose node was constructed, in order
    exchanged,   \* values in the order of their exchange on m_head
    pulled,      \* values returned by pull, in order
    discarded,   \* values dropped by clear, in order
    misuse,      \* the destructor overlapped a push, or a push followed it
    heldAtDtor,  \* ~mpsc_queue was called with every push returned and
                 \* unconsumed values in the queue
    uaf,         \* a producer touched a deallocated node
    stopRequests,  \* timer.cpp main: request_stop() calls made (t1, t2,
                   \* t_consumer, in this order)
    consumerLoop   \* timer.cpp lambda_consumer: the loop it is in

memVars ==
    <<m_head, m_tail, next, data, nextId, destroyed, freed, deallocs,
      reusedBy>>
prodVars == <<pc, val, new_node, prev_head, pushSteps, pushResult>>
consVars == <<cpc, tail_ptr, nxt, result, inDtor, opSteps, lastPull, lastOp>>
histVars ==
    <<pushed, exchanged, pulled, discarded, misuse, heldAtDtor, uaf>>
mainVars == <<stopRequests, consumerLoop>>
vars == <<memVars, prodVars, consVars, histVars, mainVars>>

\* The queue's own fields and the allocator's state: what an operation that
\* "changes nothing" leaves alone.
queueState ==
    <<m_head, m_tail, next, data, nextId, destroyed, freed, deallocs,
      reusedBy>>

\* ------------------------------------------------------------ construction
\* mpsc_queue(): allocate and construct the dummy, store it to head and tail.
Init ==
    /\ m_head = 1
    /\ m_tail = 1
    /\ next = [n \in Nodes |-> NULL]
    /\ data = [n \in Nodes |-> DefaultData]
    /\ nextId = 2
    /\ destroyed = {}
    /\ freed = {}
    /\ deallocs = 0
    /\ reusedBy = [n \in Nodes |-> NULL]
    /\ pc = [p \in Producers |-> "idle"]
    /\ val = [p \in Producers |-> DefaultData]
    /\ new_node = [p \in Producers |-> NULL]
    /\ prev_head = [p \in Producers |-> NULL]
    /\ pushSteps = [p \in Producers |-> 0]
    /\ pushResult = [p \in Producers |-> "none"]
    /\ cpc = "idle"
    /\ tail_ptr = NULL
    /\ nxt = NULL
    /\ result = DefaultData
    /\ inDtor = FALSE
    /\ opSteps = 0
    /\ lastPull = <<>>
    /\ lastOp = "none"
    /\ pushed = [p \in Producers |-> <<>>]
    /\ exchanged = <<>>
    /\ pulled = <<>>
    /\ discarded = <<>>
    /\ misuse = FALSE
    /\ heldAtDtor = FALSE
    /\ uaf = FALSE
    /\ stopRequests = 0
    /\ consumerLoop = "poll"

\* ------------------------------------------------------------------ helpers
RECURSIVE SeqToSet(_)
SeqToSet(s) == IF s = <<>> THEN {} ELSE {Head(s)} \cup SeqToSet(Tail(s))

\* std::nullopt, and the std::optional holding v.
NullOpt == <<>>
Some(v) == <<v>>

\* The argument of producer p's next push: the producers of timer.cpp push
\* i = 0, 2, 4, ... and i = 1, 3, 5, ..., one value per push that returned.
NextValue(p) == (p - 1) + NumProducers * Len(pushed[p])

\* The values a push can be called with.
PushValues == 0..(NumProducers * (MaxPush + 1) - 1)

\* Pushes whose node was constructed.
PushesBegun == nextId - 2

\* The destructor has been entered.
DtorEntered == inDtor \/ cpc \in {"d_destroy", "d_dealloc", "dead"}

\* Fault: the node is destroyed and never handed back to the allocator.
DestroyOnly(n) ==
    /\ destroyed' = destroyed \cup {n}
    /\ UNCHANGED <<freed, deallocs>>

\* deallocate(n): n is handed back to the allocator.
Deallocate(n) ==
    /\ freed' = freed \cup {n}
    /\ deallocs' = deallocs + 1

\* destroy(n) followed by deallocate(n, 1).
DestroyAndDeallocate(n) ==
    /\ destroyed' = destroyed \cup {n}
    /\ Deallocate(n)

\* The deallocated nodes a pointer of the producers' side still names and
\* whose storage no node has been allocated in since.  allocate(1) may return
\* the storage of any deallocated node; the storage of a node no pointer
\* names is as good as fresh.
ReusableStorage ==
    {d \in freed :
        /\ reusedBy[d] = NULL
        /\ \/ m_head = d
           \/ \E q \in Producers : pc[q] = "link" /\ prev_head[q] = d}

\* The node a pointer value refers to: a pointer to a deallocated node whose
\* storage was allocated again refers to the node that now lives there.
Resolve(n) ==
    IF n \in freed /\ reusedBy[n] # NULL THEN reusedBy[n] ELSE n

\* --------------------------------------------------------------------- push
\* push(const T &value) and push_impl up to the exchange: the call with its
\* argument, allocate(1) and construct(new_node, nullptr, value).
BeginPush(p, v) ==
    /\ pc[p] = "idle"
    /\ v = NextValue(p)
    /\ PushesBegun < MaxPush
    /\ val' = [val EXCEPT ![p] = v]
    /\ new_node' = [new_node EXCEPT ![p] = nextId]
    /\ data' = [data EXCEPT ![nextId] = v]
    /\ next' = [next EXCEPT ![nextId] = NULL]
    /\ nextId' = nextId + 1
    /\ \E d \in ReusableStorage \cup {NULL} :
          reusedBy' = IF d = NULL THEN reusedBy
                      ELSE [reusedBy EXCEPT ![d] = nextId]
    /\ pushed' = [pushed EXCEPT ![p] = Append(@, v)]
    /\ pc' = [pc EXCEPT ![p] = "xchg"]
    /\ pushSteps' = [pushSteps EXCEPT ![p] = 1]
    /\ pushResult' = [pushResult EXCEPT ![p] = "none"]
    /\ misuse' = (misuse \/ DtorEntered)
    /\ UNCHANGED heldAtDtor
    /\ UNCHANGED <<m_head, m_tail, destroyed, freed, deallocs, prev_head,
                   consVars, exchanged, pulled, discarded, uaf>>

\* Fault: allocate(1) succeeds, construct throws, and the node is not handed
\* back: the failed push leaves a node behind.
PushAllocFailLeak(p, v) ==
    /\ pc[p] = "idle"
    /\ v = NextValue(p)
    /\ nextId' = nextId + 1
    /\ UNCHANGED reusedBy
    /\ pushResult' = [pushResult EXCEPT ![p] = "bad_alloc"]
    /\ pushSteps' = [pushSteps EXCEPT ![p] = 1]
    /\ misuse' = (misuse \/ DtorEntered)
    /\ UNCHANGED heldAtDtor
    /\ UNCHANGED <<m_head, m_tail, next, data, destroyed, freed, deallocs, pc,
                   val, new_node, prev_head, consVars, pushed, exchanged,
                   pulled, discarded, uaf>>

\* push(const T &value) whose allocate(1) throws: the exception leaves
\* push_impl and push, and the caller sees it.
PushAllocFail(p, v) ==
    /\ pc[p] = "idle"
    /\ v = NextValue(p)
    /\ pushResult' = [pushResult EXCEPT ![p] = "bad_alloc"]
    /\ pushSteps' = [pushSteps EXCEPT ![p] = 1]
    /\ misuse' = (misuse \/ DtorEntered)
    /\ UNCHANGED heldAtDtor
    /\ UNCHANGED <<m_head, m_tail, next, data, nextId, reusedBy, destroyed,
                   freed, deallocs, pc, val, new_node, prev_head, consVars,
                   pushed, exchanged, pulled, discarded, uaf>>

\* Fault: a push into an empty queue moves m_tail to its node as well, as the
\* first insertion into a list with two ends would.
PushXchgMovesTail(p) ==
    /\ pc[p] = "xchg"
    /\ prev_head' = [prev_head EXCEPT ![p] = m_head]
    /\ m_head' = new_node[p]
    /\ m_tail' = IF m_head = m_tail THEN new_node[p] ELSE m_tail
    /\ exchanged' = Append(exchanged, val[p])
    /\ uaf' = (uaf \/ m_head \in freed)
    /\ pc' = [pc EXCEPT ![p] = "link"]
    /\ pushSteps' = [pushSteps EXCEPT ![p] = @ + 1]
    /\ UNCHANGED <<next, data, nextId, reusedBy, destroyed, freed, deallocs,
                   val, new_node, pushResult, consVars, pushed, pulled,
                   discarded, misuse, heldAtDtor>>

\* Fault: the exchange waits until no other push is between its exchange and
\* its link, as a lock around the two would make it.
PushXchgLocked(p) ==
    /\ pc[p] = "xchg"
    /\ \A q \in Producers : pc[q] # "link"
    /\ prev_head' = [prev_head EXCEPT ![p] = m_head]
    /\ m_head' = new_node[p]
    /\ exchanged' = Append(exchanged, val[p])
    /\ uaf' = (uaf \/ m_head \in freed)
    /\ pc' = [pc EXCEPT ![p] = "link"]
    /\ pushSteps' = [pushSteps EXCEPT ![p] = @ + 1]
    /\ UNCHANGED <<m_tail, next, data, nextId, reusedBy, destroyed, freed,
                   deallocs, val, new_node, pushResult, consVars, pushed,
                   pulled, discarded, misuse, heldAtDtor>>

\* push_impl: prev_head = m_head.exchange(new_node, acq_rel).
PushXchg(p) ==
    /\ pc[p] = "xchg"
    /\ prev_head' = [prev_head EXCEPT ![p] = m_head]
    /\ m_head' = new_node[p]
    /\ exchanged' = Append(exchanged, val[p])
    /\ uaf' = (uaf \/ m_head \in freed)
    /\ pc' = [pc EXCEPT ![p] = "link"]
    /\ pushSteps' = [pushSteps EXCEPT ![p] = @ + 1]
    /\ UNCHANGED <<m_tail, next, data, nextId, reusedBy, destroyed, freed,
                   deallocs, val, new_node, pushResult, consVars, pushed,
                   pulled, discarded, misuse, heldAtDtor>>

\* Fault: push_impl links backwards, new_node->next = prev_head, as a stack
\* would, so that nothing is ever reachable from m_tail.
PushLinkBackward(p) ==
    /\ pc[p] = "link"
    /\ next' = [next EXCEPT ![new_node[p]] = prev_head[p]]
    /\ pc' = [pc EXCEPT ![p] = "idle"]
    /\ pushResult' = [pushResult EXCEPT ![p] = "ok"]
    /\ pushSteps' = [pushSteps EXCEPT ![p] = @ + 1]
    /\ val' = [val EXCEPT ![p] = DefaultData]
    /\ new_node' = [new_node EXCEPT ![p] = NULL]
    /\ prev_head' = [prev_head EXCEPT ![p] = NULL]
    /\ UNCHANGED <<m_head, m_tail, data, nextId, reusedBy, destroyed, freed,
                   deallocs, consVars, pushed, exchanged, pulled, discarded,
                   misuse, heldAtDtor, uaf>>

\* Fault: push_impl returns after the exchange without storing the link into
\* prev_head->next.
PushLinkLost(p) ==
    /\ pc[p] = "link"
    /\ pc' = [pc EXCEPT ![p] = "idle"]
    /\ pushResult' = [pushResult EXCEPT ![p] = "ok"]
    /\ pushSteps' = [pushSteps EXCEPT ![p] = @ + 1]
    /\ val' = [val EXCEPT ![p] = DefaultData]
    /\ new_node' = [new_node EXCEPT ![p] = NULL]
    /\ prev_head' = [prev_head EXCEPT ![p] = NULL]
    /\ UNCHANGED <<m_head, m_tail, next, data, nextId, reusedBy, destroyed,
                   freed, deallocs, consVars, pushed, exchanged, pulled,
                   discarded, misuse, heldAtDtor, uaf>>

\* Fault: push_impl links at the consumer's end, m_tail->next, as a stack
\* would, instead of at the node it took out of m_head.
PushLinkAtTail(p) ==
    /\ pc[p] = "link"
    /\ next' = [next EXCEPT ![new_node[p]] = next[m_tail],
                            ![m_tail] = new_node[p]]
    /\ pc' = [pc EXCEPT ![p] = "idle"]
    /\ pushResult' = [pushResult EXCEPT ![p] = "ok"]
    /\ pushSteps' = [pushSteps EXCEPT ![p] = @ + 1]
    /\ val' = [val EXCEPT ![p] = DefaultData]
    /\ new_node' = [new_node EXCEPT ![p] = NULL]
    /\ prev_head' = [prev_head EXCEPT ![p] = NULL]
    /\ UNCHANGED <<m_head, m_tail, data, nextId, reusedBy, destroyed, freed,
                   deallocs, consVars, pushed, exchanged, pulled, discarded,
                   misuse, heldAtDtor, uaf>>

\* push_impl: prev_head->next.store(new_node, release), and the return, which
\* ends the lifetime of the locals.
\* A store through a pointer to a deallocated node is undefined: it lands in
\* the node that now lives in that storage, if there is one; otherwise it
\* may or may not land in the dead storage.
PushLink(p) ==
    /\ pc[p] = "link"
    /\ \/ next' = [next EXCEPT ![Resolve(prev_head[p])] = new_node[p]]
       \/ /\ Resolve(prev_head[p]) \in freed
          /\ next' = next
    /\ uaf' = (uaf \/ prev_head[p] \in freed)
    /\ pc' = [pc EXCEPT ![p] = "idle"]
    /\ pushResult' = [pushResult EXCEPT ![p] = "ok"]
    /\ pushSteps' = [pushSteps EXCEPT ![p] = @ + 1]
    /\ val' = [val EXCEPT ![p] = DefaultData]
    /\ new_node' = [new_node EXCEPT ![p] = NULL]
    /\ prev_head' = [prev_head EXCEPT ![p] = NULL]
    /\ UNCHANGED <<m_head, m_tail, data, nextId, reusedBy, destroyed, freed,
                   deallocs, consVars, pushed, exchanged, pulled, discarded,
                   misuse, heldAtDtor>>

\* One step of a push in progress.
PushStep(p) ==
    \/ PushXchg(p)
    \/ PushLink(p)

\* --------------------------------------------------------------------- pull
\* The consumer's locals, which an operation's return puts out of scope.
consLocals == <<tail_ptr, nxt, result>>
LocalsGone ==
    /\ tail_ptr' = NULL
    /\ nxt' = NULL
    /\ result' = DefaultData

\* Fault: pull starts from the newest node, m_head, instead of m_tail.
BeginPullFromHead ==
    /\ cpc = "idle"
    /\ tail_ptr' = m_head
    /\ cpc' = "p_next"
    /\ opSteps' = 1
    /\ UNCHANGED <<memVars, prodVars, nxt, result, inDtor, lastPull, lastOp,
                   histVars>>

\* pull(): the call, and tail_ptr = m_tail.load(relaxed).
BeginPull ==
    /\ cpc = "idle"
    /\ tail_ptr' = m_tail
    /\ cpc' = "p_next"
    /\ opSteps' = 1
    /\ UNCHANGED <<memVars, prodVars, nxt, result, inDtor, lastPull, lastOp,
                   histVars>>

\* Fault: pull hands the old sentinel back to the allocator before it tests
\* next for null.
PullLoadNextFreeFirst ==
    /\ cpc = "p_next"
    /\ opSteps' = opSteps + 1
    /\ IF next[tail_ptr] = NULL
       THEN /\ cpc' = "idle"
            /\ lastPull' = NullOpt
            /\ lastOp' = "pull"
            /\ LocalsGone
            /\ DestroyAndDeallocate(tail_ptr)
       ELSE /\ cpc' = "p_move"
            /\ nxt' = next[tail_ptr]
            /\ UNCHANGED <<tail_ptr, result, lastPull, lastOp, destroyed,
                           freed, deallocs>>
    /\ UNCHANGED <<m_head, m_tail, next, data, nextId, reusedBy, prodVars,
                   inDtor, histVars>>

\* Fault: pull returns a value-initialised T where it has nothing to return.
PullLoadNextDefault ==
    /\ cpc = "p_next"
    /\ opSteps' = opSteps + 1
    /\ IF next[tail_ptr] = NULL
       THEN /\ cpc' = "idle"
            /\ lastPull' = Some(DefaultData)
            /\ lastOp' = "pull"
            /\ LocalsGone
       ELSE /\ cpc' = "p_move"
            /\ nxt' = next[tail_ptr]
            /\ UNCHANGED <<tail_ptr, result, lastPull, lastOp>>
    /\ UNCHANGED <<memVars, prodVars, inDtor, histVars>>

\* Fault: pull waits at an empty queue until a node is linked.
PullLoadNextBlocking ==
    /\ cpc = "p_next"
    /\ next[tail_ptr] # NULL
    /\ opSteps' = opSteps + 1
    /\ cpc' = "p_move"
    /\ nxt' = next[tail_ptr]
    /\ UNCHANGED <<tail_ptr, result, lastPull, lastOp>>
    /\ UNCHANGED <<memVars, prodVars, inDtor, histVars>>

\* pull: next = tail_ptr->next.load(acquire); return std::nullopt if null.
PullLoadNext ==
    /\ cpc = "p_next"
    /\ opSteps' = opSteps + 1
    /\ IF next[tail_ptr] = NULL
       THEN /\ cpc' = "idle"
            /\ lastPull' = NullOpt
            /\ lastOp' = "pull"
            /\ LocalsGone
       ELSE /\ cpc' = "p_move"
            /\ nxt' = next[tail_ptr]
            /\ UNCHANGED <<tail_ptr, result, lastPull, lastOp>>
    /\ UNCHANGED <<memVars, prodVars, inDtor, histVars>>

\* Fault: pull moves the value out of the old sentinel, not out of its next.
PullMoveFromTail ==
    /\ cpc = "p_move"
    /\ result' = data[tail_ptr]
    /\ cpc' = "p_store"
    /\ opSteps' = opSteps + 1
    /\ UNCHANGED <<memVars, prodVars, tail_ptr, nxt, inDtor, lastPull, lastOp,
                   histVars>>

\* pull: T result = std::move(next->data).  Moving an int leaves it in place.
PullMove ==
    /\ cpc = "p_move"
    /\ result' = data[nxt]
    /\ cpc' = "p_store"
    /\ opSteps' = opSteps + 1
    /\ UNCHANGED <<memVars, prodVars, tail_ptr, nxt, inDtor, lastPull, lastOp,
                   histVars>>

\* Fault: pull does not store next to m_tail before it frees the old
\* sentinel.
PullStoreSkipped ==
    /\ cpc = "p_store"
    /\ cpc' = "p_free"
    /\ opSteps' = opSteps + 1
    /\ UNCHANGED <<memVars, prodVars, consLocals, inDtor, lastPull, lastOp,
                   histVars>>

\* pull: m_tail.store(next, release).
PullStore ==
    /\ cpc = "p_store"
    /\ m_tail' = nxt
    /\ cpc' = "p_free"
    /\ opSteps' = opSteps + 1
    /\ UNCHANGED <<m_head, next, data, nextId, reusedBy, destroyed, freed,
                   deallocs, prodVars, consLocals, inDtor, lastPull, lastOp,
                   histVars>>

\* Fault: pull destroys and deallocates next, the node that has just become
\* the sentinel, instead of the old one.
PullFreeNext ==
    /\ cpc = "p_free"
    /\ DestroyAndDeallocate(nxt)
    /\ pulled' = Append(pulled, result)
    /\ lastPull' = Some(result)
    /\ lastOp' = "pull"
    /\ cpc' = "idle"
    /\ opSteps' = opSteps + 1
    /\ LocalsGone
    /\ UNCHANGED <<m_head, m_tail, next, data, nextId, reusedBy, prodVars,
                   inDtor, pushed, exchanged, discarded, misuse, heldAtDtor,
                   uaf>>

\* pull: destroy(tail_ptr), deallocate(tail_ptr, 1), return result.
PullFree ==
    /\ cpc = "p_free"
    /\ DestroyAndDeallocate(tail_ptr)
    /\ pulled' = Append(pulled, result)
    /\ lastPull' = Some(result)
    /\ lastOp' = "pull"
    /\ cpc' = "idle"
    /\ opSteps' = opSteps + 1
    /\ LocalsGone
    /\ UNCHANGED <<m_head, m_tail, next, data, nextId, reusedBy, prodVars,
                   inDtor, pushed, exchanged, discarded, misuse, heldAtDtor,
                   uaf>>

\* One step of a pull in progress.
PullStep ==
    \/ PullLoadNext
    \/ PullMove
    \/ PullStore
    \/ PullFree

\* -------------------------------------------------------------------- clear
\* clear(): the call, and tail_ptr = m_tail.load(relaxed).
BeginClear ==
    /\ cpc = "idle"
    /\ tail_ptr' = m_tail
    /\ cpc' = "c_next"
    /\ opSteps' = 0
    /\ UNCHANGED <<memVars, prodVars, nxt, result, inDtor, lastPull, lastOp,
                   histVars>>

\* clear: next = tail_ptr->next.load(acquire); break if null, and return to
\* the caller, which is the destructor or the consumer's own code.
ClearLoadNext ==
    /\ cpc = "c_next"
    /\ UNCHANGED opSteps
    /\ IF next[tail_ptr] = NULL
       THEN /\ cpc' = IF inDtor THEN "d_destroy" ELSE "idle"
            /\ lastOp' = "clear"
            /\ LocalsGone
       ELSE /\ cpc' = "c_store"
            /\ nxt' = next[tail_ptr]
            /\ UNCHANGED <<tail_ptr, result, lastOp>>
    /\ UNCHANGED <<memVars, prodVars, inDtor, lastPull, histVars>>

\* Fault: clear stores m_head to m_tail, as a reset of the queue would,
\* instead of the next node of the chain.
ClearStoreToHead ==
    /\ cpc = "c_store"
    /\ m_tail' = m_head
    /\ cpc' = "c_free"
    /\ UNCHANGED opSteps
    /\ UNCHANGED <<m_head, next, data, nextId, reusedBy, destroyed, freed,
                   deallocs, prodVars, consLocals, inDtor, lastPull, lastOp,
                   histVars>>

\* clear: m_tail.store(next, release).
ClearStore ==
    /\ cpc = "c_store"
    /\ m_tail' = nxt
    /\ cpc' = "c_free"
    /\ UNCHANGED opSteps
    /\ UNCHANGED <<m_head, next, data, nextId, reusedBy, destroyed, freed,
                   deallocs, prodVars, consLocals, inDtor, lastPull, lastOp,
                   histVars>>

\* Fault: clear tests once where it should loop: it returns after the first
\* node it frees.
ClearFreeOnce ==
    /\ cpc = "c_free"
    /\ DestroyAndDeallocate(tail_ptr)
    /\ discarded' = Append(discarded, data[nxt])
    /\ LocalsGone
    /\ cpc' = IF inDtor THEN "d_destroy" ELSE "idle"
    /\ lastOp' = "clear"
    /\ UNCHANGED opSteps
    /\ UNCHANGED <<m_head, m_tail, next, data, nextId, reusedBy, prodVars,
                   inDtor, lastPull, pushed, exchanged, pulled, misuse,
                   heldAtDtor, uaf>>

\* clear: destroy(tail_ptr), deallocate(tail_ptr, 1), tail_ptr = next.
\* The value of the node that becomes the sentinel is never read.
ClearFree ==
    /\ cpc = "c_free"
    /\ DestroyAndDeallocate(tail_ptr)
    /\ discarded' = Append(discarded, data[nxt])
    /\ tail_ptr' = nxt
    /\ nxt' = NULL
    /\ cpc' = "c_next"
    /\ UNCHANGED opSteps
    /\ UNCHANGED <<m_head, m_tail, next, data, nextId, reusedBy, prodVars,
                   result, inDtor, lastPull, lastOp, pushed, exchanged, pulled,
                   misuse, heldAtDtor, uaf>>

\* One step of a clear in progress.
ClearStep ==
    \/ ClearLoadNext
    \/ ClearStore
    \/ ClearFree

\* --------------------------------------------------------------- destruction
\* Fault: the destructor does not call clear(): it goes straight to the
\* destroy of m_head and the deallocate of m_tail.
BeginDtorNoClear ==
    /\ cpc = "idle"
    /\ inDtor' = TRUE
    /\ cpc' = "d_destroy"
    /\ opSteps' = 0
    /\ misuse' = (misuse \/ \E p \in Producers : pc[p] # "idle")
    /\ heldAtDtor' = /\ \A p \in Producers : pc[p] = "idle"
                     /\ Len(pulled) + Len(discarded) < Len(exchanged)
    /\ UNCHANGED <<memVars, prodVars, consLocals, lastPull, lastOp, pushed,
                   exchanged, pulled, discarded, uaf>>

\* ~mpsc_queue(): the call, its call of clear(), and clear's
\* tail_ptr = m_tail.load(relaxed).
BeginDtor ==
    /\ cpc = "idle"
    /\ inDtor' = TRUE
    /\ tail_ptr' = m_tail
    /\ cpc' = "c_next"
    /\ opSteps' = 0
    /\ misuse' = (misuse \/ \E p \in Producers : pc[p] # "idle")
    /\ heldAtDtor' = /\ \A p \in Producers : pc[p] = "idle"
                     /\ Len(pulled) + Len(discarded) < Len(exchanged)
    /\ UNCHANGED <<memVars, prodVars, nxt, result, lastPull, lastOp, pushed,
                   exchanged, pulled, discarded, uaf>>

\* Fault: the destructor deallocates the node it destroys, so that the
\* deallocate of m_tail that follows returns the same node a second time.
DtorDestroyDeallocates ==
    /\ cpc = "d_destroy"
    /\ DestroyAndDeallocate(m_head)
    /\ cpc' = "d_dealloc"
    /\ UNCHANGED opSteps
    /\ UNCHANGED <<m_head, m_tail, next, data, nextId, reusedBy, prodVars,
                   consLocals, inDtor, lastPull, lastOp, histVars>>

\* ~mpsc_queue: destroy(m_head.load()).
DtorDestroy ==
    /\ cpc = "d_destroy"
    /\ destroyed' = destroyed \cup {m_head}
    /\ cpc' = "d_dealloc"
    /\ UNCHANGED opSteps
    /\ UNCHANGED <<m_head, m_tail, next, data, nextId, reusedBy, freed,
                   deallocs, prodVars, consLocals, inDtor, lastPull, lastOp,
                   histVars>>

\* ~mpsc_queue: deallocate(m_tail.load(), 1).
DtorDeallocate ==
    /\ cpc = "d_dealloc"
    /\ Deallocate(m_tail)
    /\ cpc' = "dead"
    /\ inDtor' = FALSE
    /\ lastOp' = "dtor"
    /\ UNCHANGED opSteps
    /\ UNCHANGED <<m_head, m_tail, next, data, nextId, reusedBy, destroyed,
                   prodVars, consLocals, lastPull, histVars>>

\* One step of a destruction in progress, after its clear().
DtorStep ==
    \/ DtorDestroy
    \/ DtorDeallocate

\* ------------------------------------------------------------ specifications
\* A producer calls push, or takes a step of its push.
ProducerNext ==
    \E p \in Producers :
        \/ \E v \in PushValues : BeginPush(p, v) \/ PushAllocFail(p, v)
        \/ PushStep(p)

\* A step of the operation the consumer is in.
ConsumerStep ==
    \/ PullStep
    \/ ClearStep
    \/ DtorStep

\* Any client of the queue: producers that push at any time and a consumer
\* that pulls, clears and destroys at any time.  The threads of timer.cpp's
\* main are not part of it.
Next ==
    \/ ProducerNext /\ UNCHANGED mainVars
    \/ BeginPull /\ UNCHANGED mainVars
    \/ BeginClear /\ UNCHANGED mainVars
    \/ BeginDtor /\ UNCHANGED mainVars
    \/ ConsumerStep /\ UNCHANGED mainVars

Spec == Init /\ [][Next]_vars

\* The consumer takes the steps of the operation it is in; nothing is asked
\* of the producers.
ConsumerFairSpec == Spec /\ WF_vars(ConsumerStep /\ UNCHANGED mainVars)

\* ----------------------------------------------------------- timer.cpp
\* main has called request_stop() on producer p's thread, and on the
\* consumer's thread.
StopRequested(p) == stopRequests >= p
ConsumerStopRequested == stopRequests = NumProducers + 1

\* main: t1.request_stop(); t2.request_stop(); t_consumer.request_stop();
\* one call per step, at any time after the threads were started.
RequestStop ==
    /\ stopRequests <= NumProducers
    /\ stopRequests' = stopRequests + 1
    /\ UNCHANGED <<memVars, prodVars, consVars, histVars, consumerLoop>>

\* lambda1, lambda2: while (!token.stop_requested()) queue.push(i), with the
\* test and the call in one step.  An exception of allocate would end the
\* program.
ProducerLoopPush(p) ==
    /\ ~StopRequested(p)
    /\ \E v \in PushValues : BeginPush(p, v)
    /\ UNCHANGED mainVars

\* lambda1, lambda2: a step of the push in progress.
ProducerLoopStep(p) == PushStep(p) /\ UNCHANGED mainVars

\* lambda_consumer: the test of one of its two loops and the call of pull.
\* The first loop is left for the second once the stop was requested.
ConsumerLoopPull ==
    /\ consumerLoop # "ended"
    /\ BeginPull
    /\ consumerLoop' = IF ConsumerStopRequested THEN "drain" ELSE consumerLoop
    /\ UNCHANGED stopRequests

\* lambda_consumer: a step of the pull in progress; the second loop and the
\* thread end when its pull returns std::nullopt.
ConsumerLoopStep ==
    /\ PullStep
    /\ consumerLoop' = IF /\ consumerLoop = "drain"
                          /\ cpc' = "idle"
                          /\ lastPull' = NullOpt
                       THEN "ended"
                       ELSE consumerLoop
    /\ UNCHANGED stopRequests

\* main: the end of its scope, after the three jthreads were joined: the
\* queue is destroyed.
MainDestroysQueue ==
    /\ ConsumerStopRequested
    /\ consumerLoop = "ended"
    /\ \A p \in Producers : pc[p] = "idle"
    /\ BeginDtor
    /\ UNCHANGED mainVars

\* main: a step of the destruction in progress.
MainDtorStep == (ClearStep \/ DtorStep) /\ UNCHANGED mainVars

\* timer.cpp: two producers push until they are stopped, the consumer pulls
\* until it is stopped and then until a pull returns empty, and main destroys
\* the queue when the three threads have ended.
DemoNext ==
    \/ \E p \in Producers : ProducerLoopPush(p) \/ ProducerLoopStep(p)
    \/ ConsumerLoopPull
    \/ ConsumerLoopStep
    \/ RequestStop
    \/ MainDestroysQueue
    \/ MainDtorStep

\* The scheduler lets every thread that can run take its steps.  Nothing is
\* asked of the moment main requests the stops (it sleeps first): a consumer
\* that is never stopped keeps calling pull.
DemoSpec ==
    /\ Init
    /\ [][DemoNext]_vars
    /\ WF_vars(ConsumerLoopPull \/ ConsumerLoopStep)
    /\ \A p \in Producers : WF_vars(ProducerLoopStep(p))

\* ------------------------------------------------------- properties: helpers
\* No push is in progress: every push that was called has returned.
AllPushesReturned == \A p \in Producers : pc[p] = "idle"

\* The values whose node was constructed, producer after producer.
RECURSIVE PushedUpTo(_)
PushedUpTo(p) == IF p = 0 THEN <<>> ELSE PushedUpTo(p - 1) \o pushed[p]
AllPushed == PushedUpTo(NumProducers)

\* How often v occurs in s, and equality of two sequences as multisets.
Count(s, v) == Cardinality({i \in 1..Len(s) : s[i] = v})
SameBag(s, t) ==
    \A v \in SeqToSet(s) \cup SeqToSet(t) : Count(s, v) = Count(t, v)

\* s without the elements outside S.
RECURSIVE Restrict(_, _)
Restrict(s, S) ==
    IF s = <<>> THEN <<>>
    ELSE IF Head(s) \in S THEN <<Head(s)>> \o Restrict(Tail(s), S)
    ELSE Restrict(Tail(s), S)

IsPrefix(s, t) == Len(s) <= Len(t) /\ s = SubSeq(t, 1, Len(s))

\* The step in which a pull returns std::nullopt.
PullReturnsEmpty == cpc = "p_next" /\ cpc' = "idle" /\ lastPull' = NullOpt

\* ---------------------------------------------------------------- properties
\* C1. Conservation under concurrency: when a pull returns empty while every
\* push has returned, and the consumer has only ever pulled, the values pull
\* has returned are, as a multiset, the values that were pushed: none is lost
\* and none is returned twice.
Conservation ==
    [][(PullReturnsEmpty /\ AllPushesReturned /\ discarded = <<>>)
          => SameBag(pulled, AllPushed)]_vars

\* C1 happens: the consumer has drained, by pulls alone, MaxPush values that
\* both producers pushed, and its last pull returned empty.
ConservationWitness ==
    /\ cpc = "idle" /\ lastOp = "pull" /\ lastPull = NullOpt
    /\ AllPushesReturned
    /\ discarded = <<>>
    /\ Len(pulled) = MaxPush
    /\ \A p \in Producers : pushed[p] # <<>>

\* C2. Per-producer FIFO: the values of one producer that pull has returned
\* come in the order this producer pushed them, and, while the consumer only
\* pulls, they are the first ones it pushed; when a single producer has
\* pushed N values and N pulls have returned a value, these are the N values
\* in order and the queue is empty for the next pull.
ProducerFifo ==
    /\ \A p \in Producers :
          LET mine == Restrict(pulled, SeqToSet(pushed[p]))
          IN  /\ mine = Restrict(pushed[p], SeqToSet(mine))
              /\ discarded = <<>> => IsPrefix(mine, pushed[p])
    /\ \A p \in Producers :
          (/\ AllPushed = pushed[p]
           /\ AllPushesReturned
           /\ Len(pulled) = Len(pushed[p])
           /\ cpc = "idle")
          => (pulled = pushed[p] /\ next[m_tail] = NULL)

\* C2 happens: pull has returned two values of one producer, in the order it
\* pushed them, around a value of the other producer.
ProducerFifoWitness ==
    \E p \in Producers :
        /\ Len(pulled) = 3
        /\ pulled[1] \in SeqToSet(pushed[p])
        /\ pulled[2] \notin SeqToSet(pushed[p])
        /\ pulled[3] \in SeqToSet(pushed[p])

\* C3. Every value whose push has exchanged m_head is eventually returned by
\* pull, when every producer is scheduled and the consumer keeps calling
\* pull: no such value stays unconsumed for ever unless the consumer's loops
\* have ended.
EventuallyPulled ==
    \A v \in PushValues :
        (v \in SeqToSet(exchanged))
            ~> (v \in SeqToSet(pulled) \/ consumerLoop = "ended")

\* C3 happens: MaxPush values of both producers were exchanged into m_head
\* and pull has returned them all.
EventuallyPulledWitness ==
    /\ consumerLoop = "poll"
    /\ Len(exchanged) = MaxPush
    /\ SeqToSet(pulled) = SeqToSet(exchanged)
    /\ \A p \in Producers : pushed[p] # <<>>

\* C4. No leak and no double free: no node is deallocated twice, and after a
\* destruction that no push overlapped or followed every node that was
\* allocated, the constructor's dummy included, has been destroyed and
\* deallocated once.
NoLeakNoDoubleFree ==
    ~misuse =>
        /\ deallocs = Cardinality(freed)
        /\ cpc = "dead" =>
              /\ deallocs = nextId - 1
              /\ freed = 1..(nextId - 1)
              /\ destroyed = freed

\* C4 happens: MaxPush values of both producers were pushed, all were pulled,
\* and the queue was then destroyed.
NoLeakWitness ==
    /\ cpc = "dead"
    /\ ~misuse
    /\ Len(pulled) = MaxPush
    /\ discarded = <<>>
    /\ \A p \in Producers : pushed[p] # <<>>

\* The step in which clear() returns to its caller.
ClearReturns ==
    /\ cpc \in {"c_next", "c_store", "c_free"}
    /\ cpc' \in {"idle", "d_destroy"}

\* Whether following the next fields nx from node n leads to node t in at
\* most k steps, and the nodes in front of t in the chain.
RECURSIVE Reaches(_, _, _, _)
Reaches(nx, n, t, k) ==
    \/ n = t
    \/ k > 0 /\ nx[n] # NULL /\ Reaches(nx, nx[n], t, k - 1)
Before(nx, t) == {n \in Nodes \ {t} : Reaches(nx, n, t, Cardinality(Nodes))}

\* C5. Clear drains fully: when clear() returns, the next of the node tail
\* points to is null, so that the next pull returns empty, and the nodes
\* that were in the chain in front of it, and no others, have been freed,
\* once; if every push has returned, the queue is as the constructor leaves
\* it: head and tail point to that one node and every other node that was
\* allocated has been freed.
ClearDrains ==
    [][ClearReturns
          => /\ next'[m_tail'] = NULL
             /\ freed' = Before(next', m_tail')
             /\ deallocs' = Cardinality(freed')
             /\ AllPushesReturned
                   => /\ m_tail' = m_head'
                      /\ freed' = (1..(nextId' - 1)) \ {m_tail'}]_vars

\* C5 happens: a clear() has returned that dropped MaxPush values pushed by
\* both producers.
ClearDrainsWitness ==
    /\ cpc = "idle" /\ lastOp = "clear"
    /\ Len(discarded) = MaxPush
    /\ pulled = <<>>
    /\ \A p \in Producers : pushed[p] # <<>>

\* Every value whose node was constructed has been returned or dropped.
AllConsumed == Len(pulled) + Len(discarded) = nextId - 2

\* C6. Idempotent emptiness: with every pushed value consumed and no push in
\* progress, a pull returns empty and its steps change nothing of the queue
\* and the allocator: head and tail stay at the one sentinel, no node is
\* allocated or deallocated.
IdempotentEmptiness ==
    [][(AllPushesReturned /\ AllConsumed /\ (BeginPull \/ PullStep))
          => /\ UNCHANGED queueState
             /\ m_head = m_tail
             /\ cpc = "p_next" => PullReturnsEmpty]_vars

\* C6 happens: MaxPush values were pushed and consumed, some by pull and some
\* by clear, and a pull after that returned empty.
IdempotentEmptinessWitness ==
    /\ cpc = "idle" /\ lastOp = "pull" /\ lastPull = NullOpt
    /\ AllPushesReturned
    /\ AllConsumed
    /\ nextId - 2 = MaxPush
    /\ pulled # <<>>
    /\ discarded # <<>>

\* C7. Empty on construction: as long as the queue is as the constructor left
\* it (no node but the dummy was ever allocated), a pull returns empty.
EmptyOnConstruction ==
    (nextId = 2 /\ lastOp = "pull" /\ cpc = "idle")
        => /\ lastPull = NullOpt
           /\ pulled = <<>>
           /\ m_head = 1 /\ m_tail = 1 /\ next[1] = NULL
           /\ freed = {}

\* C7 happens: a pull has returned on the queue as constructed, before any
\* push was called.
EmptyOnConstructionWitness ==
    /\ nextId = 2 /\ lastOp = "pull" /\ cpc = "idle"
    /\ \A p \in Producers : pushResult[p] = "none" /\ pc[p] = "idle"

\* C8. push is wait-free: a push in progress can always take its next step,
\* whatever the positions of the other producers and of the consumer, and it
\* returns with its third step at the latest (allocate, exchange, link).
PushWaitFree ==
    \A p \in Producers :
        /\ pc[p] # "idle" => (ENABLED PushStep(p) /\ pushSteps[p] < 3)
        /\ pushSteps[p] <= 3

\* C8 happens: one push is between its exchange and its link, another is
\* before its exchange, and the consumer is in the middle of a pull.
PushWaitFreeWitness ==
    \E p, q \in Producers :
        /\ pc[p] = "link" /\ pc[q] = "xchg"
        /\ cpc = "p_store"

InPull == cpc \in {"p_next", "p_move", "p_store", "p_free"}
InClear == cpc \in {"c_next", "c_store", "c_free"}

\* C9. pull and clear never wait for data: a pull in progress can always take
\* its next step and returns with its fifth step at the latest; a clear in
\* progress can always take its next step, returns with the step that reads a
\* null next, and, the producers linking finitely many nodes, does return.
NeverWaits ==
    /\ [](InPull => (ENABLED PullStep /\ opSteps < 5))
    /\ [](InClear => ENABLED ClearStep)
    /\ [][(cpc = "c_next" /\ next[tail_ptr] = NULL /\ ClearStep)
             => ClearReturns]_vars
    /\ InClear ~> ~InClear

\* C9 happens: a clear that has dropped two values reads a null next while a
\* push is between its exchange and its link.
NeverWaitsWitness ==
    /\ cpc = "c_next" /\ next[tail_ptr] = NULL
    /\ Len(discarded) >= 2
    /\ \E p \in Producers : pc[p] = "link"

\* C10. Allocation failure in push leaves the queue unchanged: the push whose
\* allocation fails reports bad_alloc to its caller, and the step in which a
\* caller gets this report changes neither head, tail, the next fields, the
\* set of allocated and freed nodes, nor the position of any push.
AllocFailureNoEffect ==
    [][\A p \in Producers :
          /\ (\E v \in PushValues : PushAllocFail(p, v))
                => pushResult'[p] = "bad_alloc"
          /\ (pushResult'[p] = "bad_alloc" /\ pushResult[p] # "bad_alloc")
                => /\ UNCHANGED queueState
                   /\ UNCHANGED <<pc, new_node, prev_head, pushed, exchanged>>
                   /\ pc[p] = "idle"]_vars

\* C10 happens: a push has failed on a queue that holds a node and while
\* another push was between its exchange and its link.
AllocFailureWitness ==
    \E p, q \in Producers :
        /\ pushResult[p] = "bad_alloc"
        /\ pc[q] = "link"
        /\ m_head # m_tail

\* C11. Destruction while a push is in progress is unsafe.  A producer holds
\* or exchanges onto a deallocated node only when the destructor has run to
\* its end with a push overlapping or following it, and the node is then the
\* one the destructor deallocated; the witness shows that this does happen.
UafOnlyByDestruction ==
    /\ uaf => (misuse /\ cpc = "dead")
    /\ \A p \in Producers :
          (pc[p] = "link" /\ prev_head[p] \in freed)
              => (misuse /\ cpc = "dead" /\ prev_head[p] = m_tail)
    /\ m_head \in freed => cpc = "dead"
    /\ (\E d \in Nodes : reusedBy[d] # NULL) => (misuse /\ cpc = "dead")

\* C11 happens: the destructor ran while a push was between its exchange and
\* its link (it destroyed the node at head and deallocated another, the one
\* at tail), and the producer has stored into the deallocated node.
UafWitness ==
    /\ uaf
    /\ cpc = "dead"
    /\ m_head \notin freed
    /\ m_head \in destroyed
    /\ AllPushesReturned

\* C12. Invariant I4 (node lifetime): as long as the destructor has not
\* deallocated, every node was deallocated at most once, every deallocated
\* node lies in the chain in front of the node tail points to, and no
\* producer holds a deallocated node: neither the node it is about to store
\* into (prev_head), nor its own new node, nor the node at head.
NodeLifetime ==
    cpc # "dead" =>
        /\ deallocs = Cardinality(freed)
        /\ freed \subseteq Before(next, m_tail)
        /\ ~uaf
        /\ m_head \notin freed
        /\ \A p \in Producers :
              /\ pc[p] = "link" => prev_head[p] \notin freed
              /\ pc[p] # "idle" => new_node[p] \notin freed

\* C12 happens: a producer is about to store into prev_head->next, tail
\* points to prev_head, and pull and clear have freed the nodes in front.
NodeLifetimeWitness ==
    \E p \in Producers :
        /\ pc[p] = "link"
        /\ prev_head[p] = m_tail
        /\ freed # {}
        /\ discarded # <<>>
        /\ pulled # <<>>
        /\ ~DtorEntered

\* A push is between its exchange on m_head and its store to prev_head->next.
InGap(p) == pc[p] = "link"

\* C13. pull returns empty only for true emptiness or the publication gap:
\* in the step in which a pull reads a null tail.next and returns empty,
\* either every value whose push has exchanged m_head has been consumed, or
\* some push is between its exchange and its link.
EmptyOnlyIfDrainedOrGap ==
    [][PullReturnsEmpty
          => \/ Len(pulled) + Len(discarded) = Len(exchanged)
             \/ \E p \in Producers : InGap(p)]_vars

\* C13 happens, the gap case: a pull has loaded tail and will read a null
\* next there, while a value is exchanged, not consumed, and its push has
\* not linked it; a second value is linked behind it.
EmptyInGapWitness ==
    \E p \in Producers :
        /\ cpc = "p_next" /\ next[tail_ptr] = NULL
        /\ InGap(p) /\ prev_head[p] = tail_ptr
        /\ Len(exchanged) = 2
        /\ pulled = <<>> /\ discarded = <<>>
        /\ \A q \in Producers \ {p} : pc[q] = "idle"

\* The nodes whose push has returned, and the position of a value in the
\* order of the exchanges on m_head (0 if it was not exchanged).
ReturnedNodes ==
    (2..(nextId - 1)) \ {new_node[p] : p \in {q \in Producers : pc[q] # "idle"}}
ExchangePos(v) ==
    IF v \in SeqToSet(exchanged)
    THEN CHOOSE i \in 1..Len(exchanged) : exchanged[i] = v
    ELSE 0

\* The node is the sentinel or in front of it (its value was taken), or the
\* consumer reaches it from tail along the next fields as they are, that is
\* without any producer taking a step.
ConsumedOrReachable(n) ==
    \/ Reaches(next, n, m_tail, Cardinality(Nodes))
    \/ Reaches(next, m_tail, n, Cardinality(Nodes))

\* The producers that have constructed their node and not yet exchanged it
\* into m_head, and the nodes that are allocated and not deallocated with a
\* null next.
BeforeExchange(p) == pc[p] = "xchg"
LiveNullNext == {n \in (1..(nextId - 1)) \ freed : next[n] = NULL}

\* C14 as stated: once a push has returned, the consumer can obtain its value
\* by pulls alone, without any other producer taking a step.
PublishedOnReturn ==
    cpc # "dead" => \A n \in ReturnedNodes : ConsumedOrReachable(n)

\* C14, amended: once a push has returned and no push that exchanged m_head
\* before it is still between its exchange and its link, the consumer can
\* obtain its value by pulls alone, without any producer taking a step.
PublishedUnlessEarlierGap ==
    cpc # "dead" =>
        \A n \in ReturnedNodes :
            (\A p \in Producers :
                InGap(p) => ExchangePos(val[p]) > ExchangePos(data[n]))
            => ConsumedOrReachable(n)

\* C14 happens: a push has returned, its node is linked behind the sentinel
\* and not consumed, and a push that exchanged after it is still between its
\* exchange and its link.
PublishedWitness ==
    \E p \in Producers :
        /\ InGap(p)
        /\ prev_head[p] # m_tail
        /\ prev_head[p] \in ReturnedNodes
        /\ Reaches(next, m_tail, prev_head[p], Cardinality(Nodes))
        /\ cpc = "idle" /\ ~DtorEntered

\* The consumer's operation in progress has stored the node of its value to
\* m_tail and has not yet returned (pull) or gone round its loop (clear).
TakingValue == cpc \in {"p_free", "c_free"}

\* The number of values the consumer has taken out of the chain.
NumConsumed ==
    Len(pulled) + Len(discarded) + (IF TakingValue THEN 1 ELSE 0)

\* C15. Sentinel invariant (I1): before destruction, tail points to an
\* allocated node that is neither destroyed nor freed; that node is the
\* initial dummy, or its value has been returned by pull or discarded by clear
\* (or is the value the operation in progress has just taken and is about to
\* return or discard); and if tail.next is linked, it holds the first
\* unconsumed value in the order of the exchanges.
SentinelInvariant ==
    ~DtorEntered =>
        /\ m_tail \in 1..(nextId - 1)
        /\ m_tail \notin freed \cup destroyed
        /\ IF NumConsumed = 0
           THEN m_tail = 1
           ELSE /\ m_tail # 1
                /\ data[m_tail] = exchanged[NumConsumed]
                /\ IF TakingValue
                   THEN /\ m_tail = nxt
                        /\ cpc = "p_free" => result = data[m_tail]
                   ELSE data[m_tail] \in SeqToSet(pulled) \cup
                                         SeqToSet(discarded)
        /\ next[m_tail] # NULL =>
              /\ NumConsumed < Len(exchanged)
              /\ data[next[m_tail]] = exchanged[NumConsumed + 1]
              /\ data[next[m_tail]] \notin SeqToSet(pulled) \cup
                                           SeqToSet(discarded)

\* C15 happens: values were pulled and discarded, the sentinel is a node
\* whose value a pull returned, and an unconsumed value is linked behind it.
SentinelWitness ==
    /\ cpc = "idle" /\ ~DtorEntered
    /\ m_tail # 1
    /\ discarded # <<>>
    /\ pulled # <<>> /\ data[m_tail] = pulled[Len(pulled)]
    /\ next[m_tail] # NULL

\* C16. Tail moves forward only (I2): every step that changes tail is the
\* store of a pull or of a clear, leaves the producers as they are, and sets
\* tail to the non-null next of the previous tail, which is no node tail
\* pointed to before.
TailForwardOnly ==
    [][m_tail' # m_tail
          => /\ cpc \in {"p_store", "c_store"}
             /\ cpc' \in {"p_free", "c_free"}
             /\ UNCHANGED prodVars
             /\ m_tail' = next[m_tail]
             /\ m_tail' # NULL
             /\ m_tail' \notin Before(next, m_tail) \cup {m_tail}
             /\ m_tail \in Before(next', m_tail')]_vars

\* C16 happens: tail has moved twice, by a pull and by a clear, while a push
\* is in progress.
TailForwardWitness ==
    /\ pulled # <<>> /\ discarded # <<>>
    /\ Cardinality(Before(next, m_tail)) >= 2
    /\ \E p \in Producers : pc[p] = "link"
    /\ ~DtorEntered

\* The nodes the queue has allocated: the dummy and one per push that got
\* its node.
Allocated == 1..(nextId - 1)

\* C17. Destruction frees the final sentinel exactly once: when the
\* destructor runs with no push in progress, after its clear() head and tail
\* point to the same node, which is the only node still allocated, so the
\* node destroyed through head and the node deallocated through tail are the
\* same; after destruction every node has been destroyed and deallocated,
\* each once.
DtorFreesSentinelOnce ==
    ~misuse =>
        /\ cpc \in {"d_destroy", "d_dealloc"} =>
              /\ m_head = m_tail
              /\ next[m_tail] = NULL
              /\ freed = Allocated \ {m_tail}
              /\ deallocs = Cardinality(freed)
        /\ cpc = "d_destroy" => destroyed = Allocated \ {m_head}
        /\ cpc = "d_dealloc" => destroyed = Allocated
        /\ cpc = "dead" =>
              /\ m_head = m_tail
              /\ freed = Allocated
              /\ destroyed = Allocated
              /\ deallocs = Cardinality(Allocated)

\* C17 happens: the queue was used and drained by pulls, then destroyed with
\* no push in progress and nothing left to discard.
DtorWitness ==
    /\ cpc = "dead" /\ ~misuse /\ ~heldAtDtor
    /\ Len(pulled) >= 2
    /\ m_tail # 1

\* C18 as stated: after a destruction that found unconsumed values in the
\* queue, with every push returned, some node is neither destroyed nor freed
\* and the deallocations are fewer than the allocations.
LeakOnDestroy ==
    (cpc = "dead" /\ ~misuse /\ heldAtDtor) =>
        /\ Allocated \ (freed \cup destroyed) # {}
        /\ deallocs < Cardinality(Allocated)

\* C18, amended: a destruction that finds unconsumed values in the queue,
\* with every push returned, does not leak: the destructor's clear() discards
\* the values that were left, up to the last one exchanged, and frees their
\* nodes, so after the destruction every allocated node has been destroyed
\* and deallocated and the deallocations equal the allocations.
NoLeakOnDestroy ==
    (cpc = "dead" /\ ~misuse /\ heldAtDtor) =>
        /\ Allocated \ (freed \cap destroyed) = {}
        /\ deallocs = Cardinality(Allocated)
        /\ Len(pulled) + Len(discarded) = Len(exchanged)
        /\ discarded # <<>>
        /\ discarded[Len(discarded)] = exchanged[Len(exchanged)]

\* C18 happens: the queue was destroyed holding two or more values that no
\* pull had taken, after a pull had taken one.
DestroyNonEmptyWitness ==
    /\ cpc = "dead" /\ ~misuse /\ heldAtDtor
    /\ pulled # <<>>
    /\ Len(discarded) >= 2

\* C19 as stated: the sequence of values returned by pull is a prefix of the
\* values in the order of their exchanges on head.
PulledIsPrefixOfExchanged == IsPrefix(pulled, exchanged)

\* The values the consumer has taken, in the order of their exchanges.
ConsumedPrefix == SubSeq(exchanged, 1, Len(pulled) + Len(discarded))

\* C19, amended: the consumer takes the values in the order of their
\* exchanges on head: the values returned by pull and the values discarded
\* by clear() are together the first exchanged values, each of the two
\* sequences in exchange order; the values returned by pull are a prefix of
\* the exchange order as long as clear() has discarded nothing.
PulledFollowsExchangeOrder ==
    /\ Len(pulled) + Len(discarded) <= Len(exchanged)
    /\ pulled = Restrict(ConsumedPrefix,
                         SeqToSet(ConsumedPrefix) \ SeqToSet(discarded))
    /\ discarded = Restrict(ConsumedPrefix, SeqToSet(discarded))
    /\ discarded = <<>> => IsPrefix(pulled, exchanged)

\* C19 happens: the second producer's first value was exchanged before the
\* first producer's, pull has returned them in that order, a third value is
\* in the queue, and nothing was discarded.
ExchangeOrderWitness ==
    /\ pulled = <<1, 0>>
    /\ Len(exchanged) = 3
    /\ discarded = <<>>
    /\ cpc = "idle"

\* C20 as stated: before destruction head points to a live node whose next
\* is null, and the live nodes with a null next are one more than the
\* producers between their exchange and their link.
HeadInvariantAsStated ==
    ~DtorEntered =>
        /\ m_head \in Allocated \ (freed \cup destroyed)
        /\ next[m_head] = NULL
        /\ Cardinality(LiveNullNext)
              = 1 + Cardinality({p \in Producers : InGap(p)})

\* C20, amended: before destruction head points to a live node whose next is
\* null and which the consumer has not freed; the live nodes with a null
\* next are head, the node each producer between its exchange and its link
\* took out of head (only that producer will write its next), and the node
\* each producer has constructed and not yet exchanged into head: their
\* number is one plus the number of producers between exchange and link plus
\* the number of producers between construction and exchange.
HeadInvariant ==
    ~DtorEntered =>
        /\ m_head \in Allocated \ (freed \cup destroyed)
        /\ next[m_head] = NULL
        /\ LiveNullNext =
              {m_head}
                 \cup {prev_head[p] : p \in {q \in Producers : InGap(q)}}
                 \cup {new_node[p] :
                          p \in {q \in Producers : BeforeExchange(q)}}
        /\ Cardinality(LiveNullNext)
              = 1 + Cardinality({p \in Producers : InGap(p)})
                  + Cardinality({p \in Producers : BeforeExchange(p)})

\* C20 happens: one producer is between its exchange and its link, another
\* has constructed its node and not yet exchanged it, and the consumer has
\* freed a node.
HeadInvariantWitness ==
    /\ \E p \in Producers : InGap(p)
    /\ \E p \in Producers : BeforeExchange(p)
    /\ freed # {}
    /\ ~DtorEntered

====
